---- MODULE Spec2Model ----
(***************************************************************************)
(* Model of src/data_prep/hdf5_iterator.py: Hdf5Iterator, an iterator that *)
(* yields randomly positioned slices of a given shape from the datasets of *)
(* an HDF5 file with one level of grouping.                                *)
(*                                                                         *)
(* A dataset is modelled by its shape, a slice by its start and end on     *)
(* each dimension, a returned array by the item it was read from and the   *)
(* index range it covers on each dimension.  None is the Python None.      *)
(***************************************************************************)
EXTENDS Integers, Sequences, FiniteSets, TLC

VARIABLES seed, shape, pos, rng, h5, alive, hist, last

vars == <<seed, shape, pos, rng, h5, alive, hist, last>>

\* Python's None, apart from every extent and position (which are >= 0)
None == -1

\* ---------------------------------------------------------------- bounds
\* Calls of __next__ made on one iterator.
MaxCalls == 2
\* Period of the pseudo-random stream a seed stands for.
TapeLen == 2

\* ------------------------------------------------------------- the store
\* The HDF5 file: a sequence of groups, each a sequence of datasets, each
\* given by its shape.  (The file of the module's own test holds 5 groups
\* of 10 datasets of shape (15, 20); this one is smaller and its datasets
\* differ in shape.)
File == << << <<1, 2>>, <<2, 2>> >>, << <<2, 1>> >> >>

\* [key for key in self.h5]
h5_groups == [g \in 1..Len(File) |-> g]

RECURSIVE ItemsFrom(_)
\* the loop that concatenates group + '/' + item for every group, in order
ItemsFrom(g) ==
  IF g > Len(h5_groups) THEN <<>>
  ELSE [i \in 1..Len(File[g]) |-> <<g, i>>] \o ItemsFrom(g + 1)

h5_items == ItemsFrom(1)

\* self.h5[name].shape
ItemShape(name) == File[name[1]][name[2]]

Min(a, b) == IF a < b THEN a ELSE b

RECURSIVE SeqMax(_)
SeqMax(s) ==
  IF s = <<>> THEN 0
  ELSE LET m == SeqMax(Tail(s)) IN IF Head(s) > m THEN Head(s) ELSE m

\* Largest extent any dataset has on any dimension.
MaxExtent == SeqMax([k \in 1..Len(h5_items) |-> SeqMax(ItemShape(h5_items[k]))])

\* Number of dimensions of the datasets.
NDim == Len(ItemShape(h5_items[1]))

\* --------------------------------------------------- the random generator
\* np.random.RandomState(seed) is a deterministic stream of raw draws fixed
\* by the seed.  A seed is modelled by the stream it stands for, an
\* arbitrary periodic sequence of raw values, and the generator's state by
\* that stream and the position in it.
RawVals == 0..(IF Len(h5_items) > MaxExtent THEN Len(h5_items) - 1 ELSE MaxExtent)
Seeds == [1..TapeLen -> RawVals]

\* (fault) the generator starts at a position the seed does not fix
RandomStateUnseeded(sd) == {[tape |-> sd, at |-> a] : a \in {0, 1}}

RandomState(sd) == {[tape |-> sd, at |-> 0]}

\* the next raw draw and the generator after it
\* (at counts the draws made)
Raw(r) == r.tape[(r.at % Len(r.tape)) + 1]
Advance(r) == [r EXCEPT !.at = r.at + 1]

\* (fault) the upper end included, as random_integers does
randint_inclusive(r, n) == Raw(r) % (n + 1)

\* rng.randint(n): an integer of [0, n); numpy raises ValueError unless n > 0
randint(r, n) == Raw(r) % n

\* rng.choice(a): one element of a
choice(r, a) == a[(Raw(r) % Len(a)) + 1]

\* ------------------------------------------------------------- __next__
\* (fault) one iteration short
num_tries_short == 500 - 1

num_tries == 500

\* (fault) "if not dim" for "if dim is None": an extent of 0 is replaced too
ResolveShapeFalsy(spec, have) ==
  [j \in 1..Len(spec) |->
     IF spec[j] = None \/ spec[j] = 0 THEN have[j] ELSE spec[j]]

\* (fault) None resolved once, from the first item, for every item
ResolveShapeFirst(spec, have) ==
  [j \in 1..Len(spec) |->
     IF spec[j] = None THEN ItemShape(h5_items[1])[j] ELSE spec[j]]

\* shape = list(copy.copy(self.shape)) with every None replaced by the
\* item's extent on that dimension
ResolveShape(spec, have) ==
  [j \in 1..Len(spec) |-> IF spec[j] = None THEN have[j] ELSE spec[j]]

\* any([want_dim > have_dim for have_dim, want_dim in zip(next_item.shape, shape)])
OutOfBounds(have, want) ==
  \E j \in 1..Min(Len(have), Len(want)) : want[j] > have[j]

\* (fault) a given position moved back until the slice fits
SliceStartClamped(want_pos, r, have_dim, want_dim) ==
  IF want_pos = None THEN randint(r, have_dim - want_dim + 1)
  ELSE Min(want_pos, have_dim - want_dim)

\* slice_start: random where want_pos is None, else want_pos itself
SliceStart(want_pos, r, have_dim, want_dim) ==
  IF want_pos = None THEN randint(r, have_dim - want_dim + 1) ELSE want_pos

\* (fault) the end taken as included
SliceEndInclusive(slice_start, want_dim) == slice_start + want_dim + 1

\* slice_end = slice_start + want_dim
SliceEnd(slice_start, want_dim) == slice_start + want_dim

RECURSIVE Slices(_, _, _, _, _, _)
\* The loop over zip(next_item.shape, shape, self.pos) from position k on:
\* the slices made so far (acc) and the generator (r) are carried along.
\* Gives the slices and the generator after the loop; ok is FALSE when
\* randint raised.
Slices(have, want, p, k, r, acc) ==
  IF k > Min(Len(have), Min(Len(want), Len(p)))
  THEN [slices |-> acc, rng |-> r, ok |-> TRUE]
  ELSE IF p[k] = None /\ have[k] - want[k] + 1 <= 0
  THEN [slices |-> acc, rng |-> r, ok |-> FALSE]
  ELSE LET slice_start == SliceStart(p[k], r, have[k], want[k]) IN
       Slices(have, want, p, k + 1, IF p[k] = None THEN Advance(r) ELSE r,
              Append(acc, <<slice_start, SliceEnd(slice_start, want[k])>>))

\* next_item[tuple(slices)]: h5py reads each slice as slice.indices(extent)
\* gives it, clipped to the dataset's extent, and reads a dimension that has
\* no slice in full.  The array read, as the index range [lo, hi) it covers
\* on each dimension of the dataset.
GetItem(have, slices) ==
  [k \in 1..Len(have) |->
     IF k <= Len(slices)
     THEN <<Min(slices[k][1], have[k]), Min(slices[k][2], have[k])>>
     ELSE <<0, have[k]>>]

\* (fault) the item drawn anew only by the first iteration: an iteration
\* that fails leaves the generator where it was
TryNoRedraw(c, sh, p) ==
  LET name == choice(c.rng, h5_items)
      have == ItemShape(name)
      r1   == Advance(c.rng)
      want == ResolveShape(sh, have)
  IN IF OutOfBounds(have, want)
     THEN [kind |-> "continue", tries |-> c.tries + 1, rng |-> c.rng]
     ELSE LET s == Slices(have, want, p, 1, r1, <<>>) IN
          [kind |-> IF s.ok THEN "return" ELSE "RandintError",
           tries |-> c.tries + 1, rng |-> s.rng,
           item |-> name, have |-> have, want |-> want, slices |-> s.slices,
           output |-> IF s.ok THEN GetItem(have, s.slices) ELSE <<>>]

\* One iteration of the loop "for i in range(num_tries)" (the loop's body),
\* begun with generator c.rng after c.tries earlier iterations.  Gives the
\* call after the iteration: kind is "continue" when the body went on to
\* the next iteration, "return" when it returned, "RandintError" when the
\* exception of randint left it.
Try(c, sh, p) ==
  LET name == choice(c.rng, h5_items)
      have == ItemShape(name)
      r1   == Advance(c.rng)
      want == ResolveShape(sh, have)
  IN IF OutOfBounds(have, want)
     THEN [kind |-> "continue", tries |-> c.tries + 1, rng |-> r1]
     ELSE LET s == Slices(have, want, p, 1, r1, <<>>) IN
          [kind |-> IF s.ok THEN "return" ELSE "RandintError",
           tries |-> c.tries + 1, rng |-> s.rng,
           item |-> name, have |-> have, want |-> want, slices |-> s.slices,
           output |-> IF s.ok THEN GetItem(have, s.slices) ELSE <<>>]

RECURSIVE Loop(_, _, _, _)
\* n iterations of the loop in a row, left as soon as one does not continue
\* (the iterations are run half by half, which keeps the evaluation shallow).
Loop(c, n, sh, p) ==
  IF c.kind # "continue" \/ n <= 0 THEN c
  ELSE IF n = 1 THEN Try(c, sh, p)
  ELSE Loop(Loop(c, n \div 2, sh, p), n - (n \div 2), sh, p)

\* __next__ with generator r: the loop, and the raise after it
next(r, sh, p) ==
  LET c == Loop([kind |-> "continue", tries |-> 0, rng |-> r], num_tries, sh, p)
  IN IF c.kind # "continue" THEN c
     ELSE [kind |-> "ValueError", tries |-> c.tries, rng |-> c.rng,
           item |-> <<>>, have |-> <<>>, want |-> <<>>, slices |-> <<>>,
           output |-> <<>>]

\* ------------------------------------------------------------ the state
\* Two iterators are made with the same arguments.
Samplers == {1, 2}

\* The values a shape is given on one dimension: None, and every extent
\* from 0 to one past the largest extent in the file.
WantVals == {None} \cup (0..(MaxExtent + 1))
\* The values a position is given on one dimension: None, and every offset
\* from 0 to below the largest extent in the file.
PosVals == {None} \cup (0..(MaxExtent - 1))

RECURSIVE Tuples(_, _)
Tuples(S, n) ==
  IF n = 0 THEN {<<>>}
  ELSE {Append(t, x) : t \in Tuples(S, n - 1), x \in S}

ShapeArgs == Tuples(WantVals, NDim)

\* The pos argument: left out (<<>>, the default None), or <<t>> for a
\* tuple t.  Nothing checks the length of t: it may be as long as shape,
\* shorter, or longer (here: a tuple as long as shape and one more None).
PosTuples == {<<t>> : t \in Tuples(PosVals, NDim)}
PosArgs ==
  {<<>>} \cup PosTuples
         \cup {<<t>> : t \in UNION {Tuples(PosVals, n) : n \in 0..(NDim - 1)}}
         \cup {<<Append(t, None)>> : t \in Tuples(PosVals, NDim)}

\* what the last call left; before the first call, kind is "new"
NoCall == [kind |-> "new", tries |-> 0, rng0 |-> <<>>, rng |-> <<>>,
           item |-> <<>>, have |-> <<>>, want |-> <<>>, slices |-> <<>>,
           output |-> <<>>]

\* Hdf5Iterator(hdf5_path, shape, pos, seed), for both iterators
Construct(posArgs) ==
  /\ seed \in Seeds
  /\ shape \in ShapeArgs
  /\ \E p \in posArgs :
       pos = IF p # <<>> THEN p[1] ELSE [dim \in 1..Len(shape) |-> None]
  /\ rng \in [Samplers -> RandomState(seed)]
  /\ h5 = [s \in Samplers |-> "open"]
  /\ alive = [s \in Samplers |-> TRUE]
  /\ hist = [s \in Samplers |-> <<>>]
  /\ last = [s \in Samplers |-> NoCall]

__init__ == Construct(PosArgs)

\* what the caller gets from a call: the array returned or the exception
Outcome(c) == [kind |-> c.kind, item |-> c.item, slices |-> c.slices,
               output |-> c.output]

\* next(h) on iterator s
__next__(s) ==
  /\ alive[s]
  /\ Len(hist[s]) < MaxCalls
  /\ \E c \in {next(rng[s], shape, pos)} :
       /\ rng' = [rng EXCEPT ![s] = c.rng]
       /\ last' = [last EXCEPT ![s] =
                     [kind |-> c.kind, tries |-> c.tries, rng0 |-> rng[s],
                      rng |-> c.rng, item |-> c.item, have |-> c.have,
                      want |-> c.want, slices |-> c.slices,
                      output |-> c.output]]
       /\ hist' = [hist EXCEPT ![s] = Append(@, Outcome(c))]
  /\ UNCHANGED <<seed, shape, pos, h5, alive>>

\* Iterator s is dropped (h is rebound, or goes out of scope).  The class
\* has no close(), __del__ or __exit__: whether the h5py.File it holds gets
\* closed is left to the garbage collector.
Drop(s) ==
  /\ alive[s]
  /\ alive' = [alive EXCEPT ![s] = FALSE]
  /\ \E st \in {"open", "closed"} : h5' = [h5 EXCEPT ![s] = st]
  /\ UNCHANGED <<seed, shape, pos, rng, hist, last>>

\* One iterator in use.
Next == __next__(1) \/ Drop(1)

Spec == __init__ /\ [][Next]_vars

\* Two iterators in use, made with a pos as long as shape (or none), their
\* calls interleaved.  The two are made alike, so only the orders in which
\* iterator 2 has made no more calls than iterator 1 are followed: any other
\* order is one of these with the two iterators' names exchanged.
InitPair == Construct({<<>>} \cup PosTuples)

NextPair ==
  \/ __next__(1)
  \/ Len(hist[2]) < Len(hist[1]) /\ __next__(2)

SpecPair == InitPair /\ [][NextPair]_vars

\* ------------------------------------------------------------ properties
Called(s) == last[s].kind # "new"
Returned(s) == last[s].kind = "return"

\* a.shape of the array the last call returned
OutShape(s) ==
  [k \in 1..Len(last[s].output) |-> last[s].output[k][2] - last[s].output[k][1]]

\* draws the last call took from the generator
Draws(s) == last[s].rng.at - last[s].rng0.at

Dims == 1..Len(shape)
Names == {h5_items[k] : k \in 1..Len(h5_items)}

\* the item fits the shape asked for on every dimension
Fit(name) == \A j \in Dims : shape[j] = None \/ shape[j] <= ItemShape(name)[j]

\* pos has an entry for dimension j that keeps the slice of the last call
\* inside the item: None, or a position p with p + extent <= the item's extent
PosInRange(s, j) ==
  /\ j <= Len(pos)
  /\ pos[j] = None \/ pos[j] + last[s].want[j] <= last[s].have[j]

\* pos is as long as shape, as the documentation of __init__ asks
PosAsLongAsShape == Len(pos) = Len(shape)

\* C1 as stated: with a shape without None that every item can hold, every
\* call returns an array of exactly that shape.  (Stated for a pos as long
\* as the shape; it fails there already.)
NoWildcardAllFit ==
  (\A j \in Dims : shape[j] # None) /\ (\A n \in Names : Fit(n))

AllWildcardPos == \A k \in 1..Len(pos) : pos[k] = None

C2_StartOffsetsInRange ==
  \A s \in Samplers :
    AllWildcardPos /\ Called(s) =>
      /\ last[s].kind # "RandintError"
      /\ Returned(s) =>
           \A k \in 1..Len(last[s].slices) :
             LET start == last[s].slices[k][1]
                 have  == last[s].have[k]
                 want  == last[s].want[k]
             IN /\ 0 <= start /\ start <= have - want
                /\ start + want <= have
                /\ want = have => start = 0

C2_Witness ==
  \E s \in Samplers :
    /\ AllWildcardPos /\ Returned(s) /\ Len(last[s].slices) = Len(shape)
    /\ \E k \in Dims : last[s].want[k] = last[s].have[k] /\ last[s].slices[k][1] = 0
    /\ \E k \in Dims : /\ last[s].slices[k][1] > 0
                       /\ last[s].slices[k][1] = last[s].have[k] - last[s].want[k]

\* C3: when the shape's extent on some dimension is larger than every
\* item's, every call raises the ValueError that follows the loop, after
\* exactly 500 iterations, each with one draw of an item, and returns
\* nothing.
TooLargeForAll ==
  \E j \in Dims : shape[j] # None /\ \A n \in Names : shape[j] > ItemShape(n)[j]

C3_Exhausted ==
  \A s \in Samplers :
    TooLargeForAll /\ Called(s) =>
      /\ last[s].kind = "ValueError"
      /\ last[s].tries = 500
      /\ Draws(s) = 500
      /\ last[s].output = <<>>
      /\ \A k \in 1..Len(hist[s]) : hist[s][k].kind = "ValueError"

C3_Witness ==
  \E s \in Samplers :
    /\ TooLargeForAll /\ Len(hist[s]) > 1 /\ last[s].kind = "ValueError"
    /\ last[s].tries = 500
    /\ \E j \in Dims : shape[j] # None /\ \A n \in Names : shape[j] <= ItemShape(n)[j]

\* C4 as stated: an iterator made with a pos whose length is not the
\* shape's never returns an array.
C4_Claim ==
  Len(pos) # Len(shape) =>
    \A s \in Samplers : \A k \in 1..Len(hist[s]) : hist[s][k].kind # "return"

HasZero == \E j \in Dims : shape[j] = 0

C8_Claim == \A s \in Samplers : ~alive[s] => h5[s] = "closed"

DrawnAt(s, i) ==
  LET r0 == last[s].rng0
      at == r0.at + i - 1
  IN h5_items[(r0.tape[(at % Len(r0.tape)) + 1] % Len(h5_items)) + 1]

C10_Retry ==
  \A s \in Samplers :
    Called(s) =>
      /\ last[s].kind \in {"return", "ValueError"}
      /\ last[s].tries \in 1..500
      /\ \A i \in 1..(last[s].tries - 1) : ~Fit(DrawnAt(s, i))
      /\ Returned(s) =>
           /\ Fit(DrawnAt(s, last[s].tries))
           /\ last[s].item = DrawnAt(s, last[s].tries)
           /\ Draws(s) >= last[s].tries
      /\ last[s].kind = "ValueError" <=>
           (last[s].tries = 500 /\ ~Fit(DrawnAt(s, 500)))
      /\ last[s].kind = "ValueError" => Draws(s) = 500

\* a call that returned after attempts that failed
C10_Witness ==
  \E s \in Samplers :
    /\ Returned(s) /\ last[s].tries > 1
    /\ ~Fit(DrawnAt(s, 1)) /\ last[s].item # DrawnAt(s, 1)

\* a call that raised although some item fits (reachable: its negation is
\* violated)
C10_ExhaustedThoughSomeItemFits ==
  \E s \in Samplers :
    last[s].kind = "ValueError" /\ \E n \in Names : Fit(n)

====
